---------------------------- MODULE Spec2Model ----------------------------
(***************************************************************************)
(* A model of DSUServer (src/src/index.ts): the Cemuhook/DSU frame codec,  *)
(* the controller state store and the datagram handler.                    *)
(*                                                                         *)
(* A Buffer is a sequence of bytes (0..255).  The source indexes buffers   *)
(* from 0, TLA+ sequences from 1: At(buf, i) is the source's buf[i].       *)
(* A JavaScript string is a sequence of one-character strings, so that     *)
(* toString(16), toString("hex") and Buffer.from(s, "hex") are modelled    *)
(* by what they compute.                                                   *)
(***************************************************************************)
EXTENDS Integers, Sequences, FiniteSets, TLC

VARIABLES
    DATA_controllerStates,  \* the 4 slots of the store, as a function on 0..3
    DATA_CONTROLLERID,      \* the 4 random bytes chosen by the constructor
    op,                     \* the operation that ran last
    arg,                    \* the inputs of the caller or the transport
    msg,                    \* the buffer in hand (a datagram, a built frame), as the
                            \* operations so far have left it
    parses,                 \* how often DSU_parseMessage has been applied to it
    ret,                    \* what the operation returned
    thrown,                 \* the error that escaped the operation ("" when none)
    sent,                   \* the frames the handler passed to DATA_server.send
    logged                  \* what the handler wrote to the console ("" when nothing)

\* msg, parses, ret, thrown, sent and logged describe the last operation
\* alone: each operation sets them anew.

vars == <<DATA_controllerStates, DATA_CONTROLLERID, op, arg, msg, parses,
          ret, thrown, sent, logged>>

----------------------------------------------------------------------------
(* JavaScript values *)

\* undefined in arithmetic gives NaN; NaN is unequal to every number.
NaN == 0 - 1

\* buf[i] of a Buffer: a byte, or undefined (NaN once used in arithmetic).
At(buf, i) == IF i >= 0 /\ i < Len(buf) THEN buf[i + 1] ELSE NaN

\* buf[i] = v on a Buffer: an index outside the buffer is silently ignored;
\* undefined is stored as 0.
SetAt(buf, i, v) ==
    IF i >= 0 /\ i < Len(buf)
    THEN [buf EXCEPT ![i + 1] = IF v = NaN THEN 0 ELSE v % 256]
    ELSE buf

\* Buffer.alloc(size): zero-filled.  (\o <<>> makes the value a tuple, so
\* that SetAt updates a sequence and not a function expression.)
Alloc(size) == [i \in 1..size |-> 0] \o <<>>

\* buf.slice(from, to): clamped to the buffer.
Slice(buf, from, to) ==
    LET e == IF to < Len(buf) THEN to ELSE Len(buf)
    IN  IF from >= e THEN <<>> ELSE SubSeq(buf, from + 1, e)

\* source.copy(target, at): copies as many bytes as fit in the target.
CopyInto(target, source, at) ==
    LET room == Len(target) - at
        n == IF Len(source) < room THEN Len(source) ELSE room
    IN  IF n <= 0 THEN target
        ELSE SubSeq(target, 1, at) \o SubSeq(source, 1, n)
             \o SubSeq(target, at + n + 1, Len(target))

HexDigits == <<"0", "1", "2", "3", "4", "5", "6", "7",
               "8", "9", "a", "b", "c", "d", "e", "f">>

\* Buffer.prototype.toString("hex"): two digits a byte.
RECURSIVE BufferToHex(_)
BufferToHex(buf) ==
    IF buf = <<>> THEN <<>>
    ELSE <<HexDigits[(buf[1] \div 16) + 1], HexDigits[(buf[1] % 16) + 1]>>
         \o BufferToHex(Tail(buf))

\* Number.prototype.toString(16) of a non-negative integer.
RECURSIVE ToString16(_)
ToString16(n) ==
    IF n < 16 THEN <<HexDigits[n + 1]>>
    ELSE Append(ToString16(n \div 16), HexDigits[(n % 16) + 1])

\* (b[0] + b[1] * 256 + b[2] * 256 * 256 + b[3] * 256 * 256 * 256).toString(16)
\* for a slice b of at most 4 bytes: "NaN" when a byte is missing, else the
\* hex digits of the little-endian value without leading zeros.  The value is
\* built from the most significant non-zero byte down, which keeps every
\* intermediate number within TLC's integers.
LittleEndianToString16(b) ==
    IF Len(b) < 4 THEN <<"N", "a", "N">>
    ELSE IF b[4] # 0
         THEN ToString16(b[4]) \o BufferToHex(<<b[3], b[2], b[1]>>)
    ELSE IF b[3] # 0 THEN ToString16(b[3]) \o BufferToHex(<<b[2], b[1]>>)
    ELSE IF b[2] # 0 THEN ToString16(b[2]) \o BufferToHex(<<b[1]>>)
    ELSE ToString16(b[1])

HexValue(c) == CHOOSE v \in 0..15 : HexDigits[v + 1] = c

\* Buffer.from(s, "hex")
RECURSIVE HexToBuffer(_)
HexToBuffer(s) ==
    IF Len(s) < 2 THEN <<>>
    ELSE <<HexValue(s[1]) * 16 + HexValue(s[2])>> \o HexToBuffer(SubSeq(s, 3, Len(s)))

----------------------------------------------------------------------------
(* Bit operations and CRC-32 (the crc-32 package, crc.buf(msg, 0)).        *)
(* TLC's integers are 32 bits wide and signed, so a 32-bit word is held as  *)
(* its 4 little-endian bytes: the signed result of crc.buf and the unsigned *)
(* bigInt of DSU_calcCRC32 are the same 4 bytes.                            *)

RECURSIVE Xor(_, _)
Xor(a, b) ==
    IF a = 0 THEN b
    ELSE IF b = 0 THEN a
    ELSE ((a + b) % 2) + 2 * Xor(a \div 2, b \div 2)

\* k right shifts of the 32-bit word <<hi, lo>> (16-bit halves) with the
\* reflected CRC-32 polynomial 0xEDB88320.
RECURSIVE CrcShift(_, _, _)
CrcShift(hi, lo, k) ==
    IF k = 0 THEN <<lo % 256, lo \div 256, hi % 256, hi \div 256>>
    ELSE LET h == hi \div 2
             l == (lo \div 2) + (hi % 2) * 32768
         IN  IF lo % 2 = 1
             THEN CrcShift(Xor(h, 60856), Xor(l, 33568), k - 1)
             ELSE CrcShift(h, l, k - 1)

\* The CRC-32 table, each entry as 4 little-endian bytes.
CrcTable == [n \in 0..255 |-> CrcShift(0, n, 8)]

\* a ^ b for two bytes, tabulated.
XorTable == [a \in 0..255 |-> [b \in 0..255 |-> Xor(a, b)]]

\* The register c after the bytes buf[i..]: c = T[(c ^ b) & 0xFF] ^ (c >>> 8)
\* for each byte b.  (The test on Len(c) makes TLC compute the register at
\* every byte instead of building one nested expression for the whole buffer.)
RECURSIVE CrcUpdate(_, _, _)
CrcUpdate(c, buf, i) ==
    IF i > Len(buf) \/ Len(c) # 4 THEN c
    ELSE LET t == CrcTable[XorTable[c[1]][buf[i]]]
         IN  CrcUpdate(<<XorTable[t[1]][c[2]], XorTable[t[2]][c[3]],
                         XorTable[t[3]][c[4]], t[4]>>, buf, i + 1)

\* crc.buf(buf, 0): the CRC-32 of buf, as the 4 little-endian bytes of the
\* 32-bit result.
CrcBuf(buf) ==
    LET c == CrcUpdate(<<255, 255, 255, 255>>, buf, 1)
    IN  <<255 - c[1], 255 - c[2], 255 - c[3], 255 - c[4]>>

----------------------------------------------------------------------------
(* Byte-codec primitives *)

RECURSIVE DSU_number2buffer(_, _)
DSU_number2buffer(n, size) ==
    IF size = 0 THEN <<>>
    ELSE <<n % 256>> \o DSU_number2buffer(n \div 256, size - 1)

RECURSIVE DSU_littleEndian2number(_)
DSU_littleEndian2number(buffer) ==
    IF buffer = <<>> THEN 0
    ELSE buffer[1] + 256 * DSU_littleEndian2number(Tail(buffer))

\* The in-place effect of DSU_calcCRC32 on its argument: msg[8..11] = 0.
ZeroCRC(m) == SetAt(SetAt(SetAt(SetAt(m, 8, 0), 9, 0), 10, 0), 11, 0)

\* The value DSU_calcCRC32 returns: the CRC-32 of the zeroed buffer, made
\* unsigned (the same 4 bytes), written little-endian, as a hex string.
DSU_calcCRC32(m) == BufferToHex(CrcBuf(ZeroCRC(m)))

----------------------------------------------------------------------------
(* Message type registry and frame codec *)

MessageTypes == {"ProtocolVersionInformation", "ConnectedControllers",
                 "ControllerData", "ControllerMotor", "Rumble", "Unknown"}

DSU_messageType2buffer(type) ==
    CASE type = "ProtocolVersionInformation" -> <<0, 0, 16, 0>>
      [] type = "ConnectedControllers" -> <<1, 0, 16, 0>>
      [] type = "ControllerData" -> <<2, 0, 16, 0>>
      [] type = "ControllerMotor" -> DSU_number2buffer(110001, 4)
      [] type = "Rumble" -> DSU_number2buffer(110002, 4)
      [] type = "Unknown" -> DSU_number2buffer(0, 4)

\* The lookup of DSU_parseMessage: the keys are the strings of the source's
\* object literal; any other string gives "Unknown".
MessageTypeOfHex(hex) ==
    CASE hex = <<"1", "0", "0", "0", "0", "0">> -> "ProtocolVersionInformation"
      [] hex = <<"1", "0", "0", "0", "0", "1">> -> "ConnectedControllers"
      [] hex = <<"1", "0", "0", "0", "0", "2">> -> "ControllerData"
      [] hex = <<"1", "1", "0", "0", "0", "1">> -> "ControllerMotor"
      [] hex = <<"1", "1", "0", "0", "0", "2">> -> "Rumble"
      [] OTHER -> "Unknown"

\* "DSUS" and "DSUC" in ASCII.
TagDSUS == <<68, 83, 85, 83>>
TagDSUC == <<68, 83, 85, 67>>

DSU_generateMessage(type, data) ==
    LET version == DSU_number2buffer(1001, 2)
        header == CopyInto(CopyInto(CopyInto(Alloc(16), TagDSUS, 0), version, 4),
                           DATA_CONTROLLERID, 12)
        messageTypeBuffer == DSU_messageType2buffer(type)
        result == header \o messageTypeBuffer \o data
        packetLength == DSU_number2buffer(Len(result) - Len(header), 2)
        withLength == CopyInto(result, packetLength, 6)
        CRC32 == DSU_calcCRC32(withLength)
    IN  CopyInto(ZeroCRC(withLength), HexToBuffer(CRC32), 8)

\* a + b * 256 of two buffer bytes, NaN when one is undefined.
Word16(buf, i) ==
    IF At(buf, i) = NaN \/ At(buf, i + 1) = NaN THEN NaN
    ELSE At(buf, i) + At(buf, i + 1) * 256

\* A variant of DSU_parseMessage that does not compare the checksums.
DSU_parseMessageNoChecksum(m) ==
    LET headerBuffer == Slice(m, 0, 16)
        tag == Slice(headerBuffer, 0, 4)
    IN  IF Len(m) - Len(headerBuffer) # Word16(headerBuffer, 6)
        THEN [error |-> "Packet length mismatch"]
        ELSE [error |-> "",
              header |-> [dsuType |-> IF tag = TagDSUS THEN "DSUS"
                                      ELSE IF tag = TagDSUC THEN "DSUC" ELSE "?",
                          version |-> Word16(headerBuffer, 4),
                          packetLength |-> Word16(headerBuffer, 6),
                          CRC32 |-> BufferToHex(Slice(headerBuffer, 8, 12)),
                          senderID |-> IF Len(headerBuffer) < 16 THEN <<NaN>>
                                       ELSE Slice(headerBuffer, 12, 16)],
              messageType |-> MessageTypeOfHex(LittleEndianToString16(Slice(m, 16, 20))),
              message |-> Slice(m, 20, Len(m))]

\* What DSU_parseMessage returns, or the error it throws (error # "").
\* header.senderID is held as its 4 little-endian bytes (NaN when a byte is
\* undefined); header.dsuType as the decoded tag.
DSU_parseMessage(m) ==
    LET headerBuffer == Slice(m, 0, 16)
        messageTypeBuffer == Slice(m, 16, 20)
        messageBuffer == Slice(m, 20, Len(m))
        messageType == MessageTypeOfHex(LittleEndianToString16(messageTypeBuffer))
        tag == Slice(headerBuffer, 0, 4)
        headerData ==
            [dsuType |-> IF tag = TagDSUS THEN "DSUS"
                         ELSE IF tag = TagDSUC THEN "DSUC" ELSE "?",
             version |-> Word16(headerBuffer, 4),
             packetLength |-> Word16(headerBuffer, 6),
             CRC32 |-> BufferToHex(Slice(headerBuffer, 8, 12)),
             senderID |-> IF Len(headerBuffer) < 16 THEN <<NaN>>
                          ELSE Slice(headerBuffer, 12, 16)]
        actualSize == Len(m) - Len(headerBuffer)
        calculatedCRC32 == DSU_calcCRC32(m)
    IN  IF actualSize # headerData.packetLength
        THEN [error |-> "Packet length mismatch"]
        ELSE IF headerData.CRC32 # calculatedCRC32
        THEN [error |-> "CRC32 mismatch"]
        ELSE [error |-> "", header |-> headerData, messageType |-> messageType,
              message |-> messageBuffer]

----------------------------------------------------------------------------
(* Controller state model *)

\* A JavaScript number that need not be an integer: num / 2^shift.
Dyadic(num, shift) == [num |-> num, shift |-> shift]

DSU_dummyState ==
    [connected |-> FALSE,
     DPAD |-> [LEFT |-> FALSE, DOWN |-> FALSE, RIGHT |-> FALSE, UP |-> FALSE],
     KEYS |-> [OPTIONS |-> FALSE, R3 |-> FALSE, L3 |-> FALSE, SHARE |-> FALSE,
               HOME |-> FALSE],
     LSTICK |-> [X |-> 0, Y |-> 0],
     RSTICK |-> [X |-> 0, Y |-> 0],
     ANALOG |-> [DPAD |-> [LEFT |-> 0, DOWN |-> 0, RIGHT |-> 0, UP |-> 0],
                 KEYS |-> [Y |-> 0, B |-> 0, A |-> 0, X |-> 0,
                           R1 |-> 0, L1 |-> 0, R2 |-> 0, L2 |-> 0]],
     MOTION |-> [TIMESTAMP |-> 0,
                 ACCEL |-> [X |-> Dyadic(0, 0), Y |-> Dyadic(0, 0), Z |-> Dyadic(0, 0)],
                 GYRO |-> [PITCH |-> Dyadic(0, 0), YAW |-> Dyadic(0, 0),
                           ROLL |-> Dyadic(0, 0)]]]

\* One of the states DSU_randomState can return: the one where the calls of
\* genrandomState() give b, ~b, b, ... in turn, those of genrandomNumber()
\* give n, n + 1, ... (mod 256) in turn and Date.now() gives now.
DSU_randomState(b, n, now) ==
    LET r(k) == (n + k) % 256
    IN  [connected |-> TRUE,
         DPAD |-> [LEFT |-> b, DOWN |-> ~b, RIGHT |-> b, UP |-> ~b],
         KEYS |-> [OPTIONS |-> b, R3 |-> ~b, L3 |-> b, SHARE |-> ~b, HOME |-> b],
         LSTICK |-> [X |-> r(0), Y |-> r(1)],
         RSTICK |-> [X |-> r(2), Y |-> r(3)],
         ANALOG |-> [DPAD |-> [LEFT |-> r(4), DOWN |-> r(5), RIGHT |-> r(6),
                               UP |-> r(7)],
                     KEYS |-> [Y |-> r(8), B |-> r(9), A |-> r(10), X |-> r(11),
                               R1 |-> r(12), L1 |-> r(13), R2 |-> r(14),
                               L2 |-> r(15)]],
         MOTION |-> [TIMESTAMP |-> now,
                     ACCEL |-> [X |-> Dyadic(r(16), 8), Y |-> Dyadic(r(17), 8),
                                Z |-> Dyadic(r(18), 8)],
                     GYRO |-> [PITCH |-> Dyadic(r(19), 0), YAW |-> Dyadic(r(20), 0),
                               ROLL |-> Dyadic(r(21), 0)]]]

\* this.DATA_controllerStates[index] of an index outside the array.
Undefined == [undefined |-> TRUE]

DSU_getControllerState(index) ==
    IF index \in DOMAIN DATA_controllerStates
    THEN DATA_controllerStates[index] ELSE Undefined

----------------------------------------------------------------------------
(* Controller state serializer *)

\* Buffer.from(buffer, 6): a copy of the buffer; the second argument is
\* ignored for a Buffer source.
BufferFrom(buffer) == buffer

DSU_createControllerData(slot, enabled) ==
    LET response == SetAt(Alloc(12), 0, slot)
        MACADRESS == SetAt(BufferFrom(DATA_CONTROLLERID), 5, slot)
        marked == SetAt(SetAt(SetAt(SetAt(response, 1, 2), 2, 2), 3, 1), 10, 5)
    IN  IF ~enabled THEN response
        ELSE SetAt(CopyInto(marked, MACADRESS, 4), 11, 0)

BOOL2BIT(bool) == IF bool THEN 1 ELSE 0

RECURSIVE BITMASK2BUFFER(_)
BITMASK2BUFFER(bitmask) ==
    IF bitmask = <<>> THEN 0
    ELSE bitmask[1] + 2 * BITMASK2BUFFER(Tail(bitmask))

\* floor(log2(a)) for a >= 1
RECURSIVE Log2(_)
Log2(a) == IF a < 2 THEN 0 ELSE 1 + Log2(a \div 2)

RECURSIVE Pow2(_)
Pow2(k) == IF k = 0 THEN 1 ELSE 2 * Pow2(k - 1)

\* float2buffer: buffer.writeFloatLE(n), the IEEE-754 single of n, for a
\* dyadic n with |num| < 2^24 (exactly representable, normal range).
float2buffer(x) ==
    IF x.num = 0 THEN <<0, 0, 0, 0>>
    ELSE LET a == IF x.num < 0 THEN 0 - x.num ELSE x.num
             e == Log2(a)
             biased == e - x.shift + 127
             mant == (a - Pow2(e)) * Pow2(23 - e)
         IN  <<mant % 256, (mant \div 256) % 256,
               (biased % 2) * 128 + (mant \div 65536),
               (IF x.num < 0 THEN 128 ELSE 0) + (biased \div 2)>>

DSU_state2buffer(slot, state) ==
    LET CONTROLLER_INFO == DSU_createControllerData(slot, state.connected)
        b0 == CopyInto(Alloc(80), CONTROLLER_INFO, 0)
        b1 == SetAt(b0, 11, IF state.connected THEN 1 ELSE 0)
        b2 == SetAt(SetAt(SetAt(SetAt(b1, 12, At(DATA_CONTROLLERID, 0)),
                                13, At(DATA_CONTROLLERID, 1)),
                          14, At(DATA_CONTROLLERID, 2)),
                    15, slot)
        b3 == SetAt(b2, 16, DSU_number2buffer(BITMASK2BUFFER(
                  <<BOOL2BIT(state.DPAD.LEFT), BOOL2BIT(state.DPAD.DOWN),
                    BOOL2BIT(state.DPAD.RIGHT), BOOL2BIT(state.DPAD.UP),
                    BOOL2BIT(state.KEYS.OPTIONS), BOOL2BIT(state.KEYS.R3),
                    BOOL2BIT(state.KEYS.L3), BOOL2BIT(state.KEYS.SHARE)>>), 1)[1])
        b4 == SetAt(b3, 18, DSU_number2buffer(BOOL2BIT(state.KEYS.HOME), 1)[1])
        sticks == DSU_number2buffer(state.LSTICK.X, 1)
                  \o DSU_number2buffer(state.LSTICK.Y, 1)
                  \o DSU_number2buffer(state.RSTICK.X, 1)
                  \o DSU_number2buffer(state.RSTICK.Y, 1)
        analog == DSU_number2buffer(state.ANALOG.DPAD.LEFT, 1)
                  \o DSU_number2buffer(state.ANALOG.DPAD.DOWN, 1)
                  \o DSU_number2buffer(state.ANALOG.DPAD.RIGHT, 1)
                  \o DSU_number2buffer(state.ANALOG.DPAD.UP, 1)
                  \o DSU_number2buffer(state.ANALOG.KEYS.Y, 1)
                  \o DSU_number2buffer(state.ANALOG.KEYS.B, 1)
                  \o DSU_number2buffer(state.ANALOG.KEYS.A, 1)
                  \o DSU_number2buffer(state.ANALOG.KEYS.X, 1)
                  \o DSU_number2buffer(state.ANALOG.KEYS.R1, 1)
                  \o DSU_number2buffer(state.ANALOG.KEYS.L1, 1)
                  \o DSU_number2buffer(state.ANALOG.KEYS.R2, 1)
                  \o DSU_number2buffer(state.ANALOG.KEYS.L2, 1)
        motion == DSU_number2buffer(state.MOTION.TIMESTAMP, 8)
                  \o float2buffer(state.MOTION.ACCEL.X)
                  \o float2buffer(state.MOTION.ACCEL.Y)
                  \o float2buffer(state.MOTION.ACCEL.Z)
                  \o float2buffer(state.MOTION.GYRO.PITCH)
                  \o float2buffer(state.MOTION.GYRO.YAW)
                  \o float2buffer(state.MOTION.GYRO.ROLL)
    IN  CopyInto(CopyInto(CopyInto(b4, sticks, 20), analog, 24), motion, 48)

----------------------------------------------------------------------------
(* Request dispatcher: UDP_DefaultHandler *)

\* What a part of the handler's try block does: the frames it passes to
\* sendMessage, the error it throws ("" when none) and what it logs.
Outcome(frames, error, log) == [sent |-> frames, error |-> error, logged |-> log]

\* The loop of case "ConnectedControllers" from iteration `slot` on.  It
\* ends with a TypeError when DSU_getControllerState(slot) is undefined; the
\* frames of the iterations before have been sent.
RECURSIVE ReportSlots(_, _, _)
ReportSlots(message, slot, slotCount2report) ==
    IF slot >= slotCount2report THEN Outcome(<<>>, "", "")
    ELSE IF DSU_getControllerState(slot) = Undefined
    THEN Outcome(<<>>, "TypeError", "")
    ELSE LET frame == DSU_generateMessage("ConnectedControllers",
                          DSU_createControllerData(At(message, 4 + slot),
                              DSU_getControllerState(slot).connected))
             rest == ReportSlots(message, slot + 1, slotCount2report)
         IN  Outcome(<<frame>> \o rest.sent, rest.error, "")

\* A variant of case "ControllerData" that reads the index at byte 1 in both
\* modes.
ReportDataIndexAtByte1(message) ==
    LET CONTROLLER_INDEX == At(message, 1)
    IN  IF At(message, 0) \notin {1, 2} \/ CONTROLLER_INDEX = NaN
        THEN Outcome(<<>>, "", "")
        ELSE IF DSU_getControllerState(CONTROLLER_INDEX) = Undefined
        THEN Outcome(<<>>, "TypeError", "")
        ELSE Outcome(<<DSU_generateMessage("ControllerData",
                          DSU_state2buffer(CONTROLLER_INDEX,
                              DSU_getControllerState(CONTROLLER_INDEX)))>>,
                     "", "")

\* A variant that has no "UNKNOWN" selection: every mode but 1 selects by
\* identifier.
ReportDataAnyMode(message) ==
    LET CONTROLLER_INDEX == IF At(message, 0) = 1 THEN At(message, 1)
                            ELSE At(message, 7)
    IN  IF CONTROLLER_INDEX = NaN
        THEN Outcome(<<>>, "", "")
        ELSE IF DSU_getControllerState(CONTROLLER_INDEX) = Undefined
        THEN Outcome(<<>>, "TypeError", "")
        ELSE Outcome(<<DSU_generateMessage("ControllerData",
                          DSU_state2buffer(CONTROLLER_INDEX,
                              DSU_getControllerState(CONTROLLER_INDEX)))>>,
                     "", "")

\* case "ControllerData"
ReportData(message) ==
    LET SELECTION_TYPE == IF At(message, 0) = 1 THEN "SLOT"
                          ELSE IF At(message, 0) = 2 THEN "MAC" ELSE "UNKNOWN"
        CONTROLLER_INDEX == IF SELECTION_TYPE = "SLOT" THEN At(message, 1)
                            ELSE At(message, 7)
    IN  IF SELECTION_TYPE = "UNKNOWN" \/ CONTROLLER_INDEX = NaN
        THEN Outcome(<<>>, "", "")
        ELSE IF DSU_getControllerState(CONTROLLER_INDEX) = Undefined
        THEN Outcome(<<>>, "TypeError", "")
        ELSE Outcome(<<DSU_generateMessage("ControllerData",
                          DSU_state2buffer(CONTROLLER_INDEX,
                              DSU_getControllerState(CONTROLLER_INDEX)))>>,
                     "", "")

\* The try block of the handler.
Dispatch(m) ==
    LET message == DSU_parseMessage(m)
    IN  IF message.error # "" THEN Outcome(<<>>, message.error, "")
        ELSE IF message.messageType = "ConnectedControllers"
        THEN ReportSlots(message.message, 0,
                         DSU_littleEndian2number(Slice(message.message, 0, 4)))
        ELSE IF message.messageType = "ControllerData"
        THEN ReportData(message.message)
        ELSE Outcome(<<>>, "", "Received")

\* One call of the handler: what it sends, what it logs, and the error that
\* escapes it.  The catch clause logs whatever the try block throws.
UDP_DefaultHandler(m) ==
    LET r == Dispatch(m)
    IN  [sent |-> r.sent,
         logged |-> IF r.error # "" THEN r.error ELSE r.logged,
         thrown |-> ""]

----------------------------------------------------------------------------
(* Bounds and inputs *)

MaxCount == 5      \* the largest slot count of a connected-controllers query
MaxIndex == 4      \* the largest slot index passed to the API or put in a query
MaxArrayLen == 5   \* the longest array passed to DSU_setControllersState
MaxParses == 2     \* how often one buffer is parsed

\* Values DSU_generateID can return.
SampleIDs == {<<1, 2, 3, 4>>, <<170, 187, 204, 221>>}

\* Values DSU_randomState can return.
RandomStates == {DSU_randomState(TRUE, 250, 1000), DSU_randomState(FALSE, 17, 70000)}

InputStates == {DSU_dummyState} \cup RandomStates

\* Arrays passed to DSU_setControllersState: of 3 to MaxArrayLen entries,
\* two states alternating.
InputArrays ==
    {[i \in 0..(n - 1) |-> IF i % 2 = 0 THEN st[1] ELSE st[2]] :
        n \in 3..MaxArrayLen,
        st \in {<<DSU_dummyState, DSU_randomState(TRUE, 250, 1000)>>,
                <<DSU_randomState(FALSE, 17, 70000), DSU_dummyState>>,
                <<DSU_randomState(TRUE, 250, 1000), DSU_randomState(FALSE, 17, 70000)>>}}

\* A frame as a client builds it: tag "DSUC", version 1001, the length of
\* code and body, the CRC-32 of the frame with a zero checksum field, the
\* client's id.
ClientFrame(code, body) ==
    LET f == TagDSUC \o DSU_number2buffer(1001, 2)
             \o DSU_number2buffer(Len(code) + Len(body), 2)
             \o <<0, 0, 0, 0>> \o <<9, 8, 7, 6>> \o code \o body
    IN  CopyInto(f, CrcBuf(f), 8)

\* The wire codes DSU_parseMessage recognises, and two it does not.
CodeVersion == <<0, 0, 16, 0>>
CodeConnected == <<1, 0, 16, 0>>
CodeData == <<2, 0, 16, 0>>
CodeMotor == <<1, 0, 17, 0>>
CodeRumble == <<2, 0, 17, 0>>
OtherCodes == {<<0, 0, 0, 0>>, <<177, 173, 1, 0>>}

\* Slot lists of n requested slots: counting up from 0, counting up from 1,
\* and one slot repeated.
SlotLists(n) ==
    {[i \in 1..n |-> (i - 1) % 4], [i \in 1..n |-> i % 4], [i \in 1..n |-> 2]}

ConnectedQueries ==
    {ClientFrame(CodeConnected, DSU_number2buffer(Len(slots), 4) \o slots) :
        slots \in UNION {SlotLists(n) : n \in 0..MaxCount}}

\* Controller-data queries by slot (mode 1, index at byte 1) and by
\* identifier (mode 2, index at byte 7).
DataQueries ==
    {ClientFrame(CodeData, <<1, k>>) : k \in 0..MaxIndex}
    \cup {ClientFrame(CodeData, <<2, 7, 0, 0, 0, 0, 0, k>>) : k \in 0..MaxIndex}

\* Controller-data queries that select nothing: an unknown mode, no mode,
\* a mode without its index.
IgnoredDataQueries ==
    {ClientFrame(CodeData, b) :
        b \in {<<>>, <<9>>, <<0, 1>>, <<3, 7, 0, 0, 0, 0, 0, 1>>, <<1>>, <<2, 1>>}}

OtherFrames ==
    {ClientFrame(CodeVersion, <<>>), ClientFrame(CodeMotor, <<1, 0, 0, 0>>),
     ClientFrame(CodeRumble, <<1, 0, 0, 0, 0, 0, 0, 0, 200>>)}
    \cup {ClientFrame(c, <<5>>) : c \in OtherCodes}

ValidFrames == ConnectedQueries \cup DataQueries \cup IgnoredDataQueries \cup OtherFrames

Sample == ClientFrame(CodeData, <<1, 2>>)

\* The sample query with: a body byte changed; the length field changed and
\* the checksum made right for it; the length field changed alone; a byte
\* appended; its first k bytes only.
Malformed ==
    {SetAt(Sample, 21, 3),
     LET f == CopyInto(Sample, DSU_number2buffer(7, 2), 6) IN CopyInto(f, CrcBuf(ZeroCRC(f)), 8),
     CopyInto(Sample, DSU_number2buffer(7, 2), 6),
     Sample \o <<0>>}
    \cup {Slice(Sample, 0, k) : k \in {0, 7, 15, 21}}

\* Datagrams shorter than a header whose length field is 0: with a right
\* checksum over what is there (12 to 15 bytes), and with no checksum field.
ShortFrames ==
    {LET f == Slice(TagDSUC \o DSU_number2buffer(1001, 2) \o Alloc(10), 0, k)
     IN  CopyInto(f, CrcBuf(f), 8) : k \in {8, 12, 15}}

Datagrams == ValidFrames \cup Malformed \cup ShortFrames

\* Bodies passed to DSU_generateMessage.
Bodies == {<<>>, <<7>>, <<2, 0, 0, 0, 0, 1>>, <<3, 2, 2, 1, 1, 2, 3, 4, 0, 0, 5, 0>>}

----------------------------------------------------------------------------
(* The state machine *)

Init ==
    /\ DATA_controllerStates = [i \in 0..3 |-> DSU_dummyState]
    /\ DATA_CONTROLLERID \in SampleIDs
    /\ op = "constructor"
    /\ arg = <<>>
    /\ msg = <<>>
    /\ parses = 0
    /\ ret = <<>>
    /\ thrown = ""
    /\ sent = <<>>
    /\ logged = ""

Idle == op # "message"

\* array.length of an array held as a function on 0..(length - 1).
ArrayLength(array) == Cardinality(DOMAIN array)

\* A variant whose upper bound is off by one: index 4 is stored, and the
\* array grows as a JavaScript array does.
DSU_setControllerStateUpTo4(index, state) ==
    IF index < 0 \/ index > 4
    THEN [thrown |-> "Invalid controller index", states |-> DATA_controllerStates]
    ELSE [thrown |-> "",
          states |-> [i \in DOMAIN DATA_controllerStates \cup {index} |->
                         IF i = index THEN state ELSE DATA_controllerStates[i]]]

\* What DSU_setControllerState(index, state) leaves in the store and throws.
DSU_setControllerState(index, state) ==
    IF index < 0 \/ index > 3
    THEN [thrown |-> "Invalid controller index", states |-> DATA_controllerStates]
    ELSE [thrown |-> "",
          states |-> [DATA_controllerStates EXCEPT ![index] = state]]

\* What DSU_setControllersState(state) leaves in the store and throws.
DSU_setControllersState(state) ==
    IF ArrayLength(state) # 4
    THEN [thrown |-> "Invalid controller state array length",
          states |-> DATA_controllerStates]
    ELSE [thrown |-> "", states |-> state]

SetSlot ==
    /\ Idle
    /\ \E index \in (0 - 1)..MaxIndex, state \in InputStates :
          LET r == DSU_setControllerState(index, state)
          IN  /\ DATA_controllerStates' = r.states
              /\ thrown' = r.thrown
              /\ op' = "setControllerState"
              /\ arg' = [index |-> index, state |-> state]
    /\ msg' = <<>> /\ parses' = 0 /\ ret' = <<>> /\ sent' = <<>> /\ logged' = ""
    /\ UNCHANGED DATA_CONTROLLERID

SetAll ==
    /\ Idle
    /\ \E state \in InputArrays :
          LET r == DSU_setControllersState(state)
          IN  /\ DATA_controllerStates' = r.states
              /\ thrown' = r.thrown
              /\ op' = "setControllersState"
              /\ arg' = [state |-> state]
    /\ msg' = <<>> /\ parses' = 0 /\ ret' = <<>> /\ sent' = <<>> /\ logged' = ""
    /\ UNCHANGED DATA_CONTROLLERID

\* The transport delivers a datagram: the "message" event.  The listener
\* runs in the same turn of the event loop, so nothing comes between Receive
\* and Handle; state updates come before and after.
Receive ==
    /\ Idle
    /\ \E m \in Datagrams :
          /\ msg' = m
          /\ arg' = [msg |-> m]
    /\ op' = "message"
    /\ parses' = 0
    /\ ret' = <<>> /\ thrown' = "" /\ sent' = <<>> /\ logged' = ""
    /\ UNCHANGED <<DATA_controllerStates, DATA_CONTROLLERID>>

\* The listener runs UDP_DefaultHandler on the delivered datagram.
\* DSU_parseMessage leaves the buffer with its checksum field zeroed.
Handle ==
    /\ op = "message"
    /\ LET r == UDP_DefaultHandler(msg)
       IN  /\ sent' = r.sent
           /\ logged' = r.logged
           /\ thrown' = r.thrown
    /\ msg' = ZeroCRC(msg)
    /\ parses' = parses + 1
    /\ op' = "handler"
    /\ UNCHANGED <<DATA_controllerStates, DATA_CONTROLLERID, arg, ret>>

\* The calls of the codec's functions, each with its inputs.
CodecCalls ==
    {[fn |-> "generateMessage", type |-> type, data |-> data] :
        type \in MessageTypes, data \in Bodies}
    \cup {[fn |-> "parseMessage", msg |-> m] : m \in Datagrams}
    \cup {[fn |-> "createControllerData", slot |-> slot, enabled |-> enabled] :
            slot \in 0..MaxIndex, enabled \in BOOLEAN}

\* A constructed server and a caller about to make one of the calls.
InitCodec ==
    /\ DATA_controllerStates = [i \in 0..3 |-> DSU_dummyState]
    /\ DATA_CONTROLLERID \in SampleIDs
    /\ op = "call"
    /\ arg \in CodecCalls
    /\ msg = IF arg.fn = "parseMessage" THEN arg.msg ELSE <<>>
    /\ parses = 0
    /\ ret = <<>>
    /\ thrown = ""
    /\ sent = <<>>
    /\ logged = ""

CallGenerateMessage ==
    /\ op = "call" /\ arg.fn = "generateMessage"
    /\ ret' = DSU_generateMessage(arg.type, arg.data)
    /\ msg' = ret'
    /\ op' = "generateMessage"
    /\ UNCHANGED <<DATA_controllerStates, DATA_CONTROLLERID, arg, parses, thrown,
                   sent, logged>>

\* DSU_parseMessage applied to the buffer in hand: the caller's own, or the
\* frame DSU_generateMessage returned, for the first time or again.
CallParseMessage ==
    /\ \/ op = "call" /\ arg.fn = "parseMessage"
       \/ op \in {"generateMessage", "parseMessage"}
    /\ parses < MaxParses
    /\ LET r == DSU_parseMessage(msg)
       IN  /\ ret' = r
           /\ thrown' = r.error
    /\ msg' = ZeroCRC(msg)
    /\ parses' = parses + 1
    /\ op' = "parseMessage"
    /\ UNCHANGED <<DATA_controllerStates, DATA_CONTROLLERID, arg, sent, logged>>

CallCreateControllerData ==
    /\ op = "call" /\ arg.fn = "createControllerData"
    /\ ret' = DSU_createControllerData(arg.slot, arg.enabled)
    /\ op' = "createControllerData"
    /\ UNCHANGED <<DATA_controllerStates, DATA_CONTROLLERID, arg, msg, parses,
                   thrown, sent, logged>>

\* The server: state updates and datagram handling, in any order.
Next == SetSlot \/ SetAll \/ Receive \/ Handle

Spec == Init /\ [][Next]_vars

\* The codec's functions applied to their inputs.
NextCodec == CallGenerateMessage \/ CallParseMessage \/ CallCreateControllerData

SpecCodec == InitCodec /\ [][NextCodec]_vars

----------------------------------------------------------------------------
(* Properties *)

\* The fields of a frame, by the wire layout.
CodeOf(frame) == Slice(frame, 16, 20)
BodyOf(frame) == Slice(frame, 20, Len(frame))

\* The slot index a controller-data query asks for.
RequestedIndex(query) ==
    IF At(BodyOf(query), 0) = 1 THEN At(BodyOf(query), 1) ELSE At(BodyOf(query), 7)

\* The slot indices a connected-controllers query asks for.
RequestedSlots(query) == Slice(BodyOf(query), 4, Len(BodyOf(query)))

\* The two validations of a datagram, as the wire format states them.
LengthValid(m) == Len(m) - 16 = Word16(m, 6)
ChecksumValid(m) == Slice(m, 8, 12) = CrcBuf(ZeroCRC(m))

Handled(queries) == op = "handler" /\ arg.msg \in queries

\* C1: the i-th response to a connected-controllers query carries the
\* summary of the requested slot k_i with the connected flag of slot k_i.
C1_SummaryOfRequestedSlot ==
    Handled(ConnectedQueries) =>
        \A i \in 1..Len(sent) :
            LET k == RequestedSlots(arg.msg)[i]
            IN  BodyOf(sent[i])
                = DSU_createControllerData(k, DATA_controllerStates[k].connected)

\* C2: parsing a frame built by DSU_generateMessage succeeds and returns the
\* kind and the body that were encoded.
C2_BuildParseRoundTrip ==
    (op = "parseMessage" /\ arg.fn = "generateMessage" /\ parses = 1) =>
        /\ ret.error = ""
        /\ ret.messageType = arg.type
        /\ ret.message = arg.data

\* C3: a controller-data query for slot k in 0..3 is answered by exactly one
\* frame, of kind controller-data, whose body is the payload of the one
\* state that slot k holds when the datagram is handled.
C3_DataReplyFromCurrentState ==
    (Handled(DataQueries) /\ RequestedIndex(arg.msg) \in 0..3) =>
        /\ Len(sent) = 1
        /\ LET reply == DSU_parseMessage(sent[1])
               k == RequestedIndex(arg.msg)
           IN  /\ reply.error = ""
               /\ reply.messageType = "ControllerData"
               /\ reply.message = DSU_state2buffer(k, DATA_controllerStates[k])
               /\ \E s \in InputStates :
                    /\ s = DATA_controllerStates[k]
                    /\ At(reply.message, 11) = BOOL2BIT(s.connected)
                    /\ At(reply.message, 20) = s.LSTICK.X
                    /\ At(reply.message, 35) = s.ANALOG.KEYS.L2
                    /\ At(reply.message, 48) = s.MOTION.TIMESTAMP % 256

C3_Witness ==
    /\ Handled({ClientFrame(CodeData, <<2, 7, 0, 0, 0, 0, 0, 3>>)})
    /\ DATA_controllerStates[3] = DSU_randomState(FALSE, 17, 70000)
    /\ DATA_controllerStates[0] = DSU_randomState(TRUE, 250, 1000)
    /\ Len(sent) = 1

\* C4: a connected-controllers query that declares n slots is answered by
\* exactly n frames, each a connected-controllers response with a 12-byte
\* body whose byte 0 is the requested slot index.
C4_OneFramePerRequestedSlot ==
    Handled(ConnectedQueries) =>
        /\ Len(sent) = Len(RequestedSlots(arg.msg))
        /\ \A i \in 1..Len(sent) :
              /\ CodeOf(sent[i]) = CodeConnected
              /\ Len(BodyOf(sent[i])) = 12
              /\ At(BodyOf(sent[i]), 0) = RequestedSlots(arg.msg)[i]

\* C5: the summary of a connected slot k carries 2, 2, 1 at offsets 1..3,
\* the sender identifier followed up to offset 9 by the slot index, 5 at
\* offset 10 and 0 at offset 11.
C5_IdentifierEndsWithSlot ==
    (op = "createControllerData" /\ arg.enabled /\ arg.slot \in 0..3) =>
        /\ At(ret, 0) = arg.slot
        /\ Slice(ret, 1, 4) = <<2, 2, 1>>
        /\ Slice(ret, 4, 8) = DATA_CONTROLLERID
        /\ At(ret, 9) = arg.slot
        /\ At(ret, 10) = 5
        /\ At(ret, 11) = 0

\* C6: the code DSU_messageType2buffer gives each kind but "Unknown" is
\* decoded by DSU_parseMessage to that kind, and no two kinds share a code.
C6_RegistryIsTwoWay ==
    /\ \A t1, t2 \in MessageTypes :
          t1 # t2 => DSU_messageType2buffer(t1) # DSU_messageType2buffer(t2)
    /\ (op = "parseMessage" /\ arg.fn = "generateMessage" /\ parses = 1
        /\ arg.type # "Unknown" /\ ret.error = "")
          => ret.messageType = arg.type

\* C7: a datagram whose length less 16 is not its length field is rejected
\* with the length error, whatever its checksum.
C7_LengthDecidesFirst ==
    (op = "parseMessage" /\ arg.fn = "parseMessage" /\ parses = 1
     /\ ~LengthValid(arg.msg))
        => thrown = "Packet length mismatch"

\* C8: handling a datagram that fails the length or the checksum validation
\* sends nothing, lets no error escape and leaves the store and the sender
\* identifier as they were.  UDP_DefaultHandler reads nothing but these two
\* and its datagram, so every later query is answered as if the datagram had
\* never arrived.
C8_BadDatagramHasNoEffect ==
    [][(op = "message" /\ op' = "handler"
        /\ ~(LengthValid(msg) /\ ChecksumValid(msg)))
          => /\ sent' = <<>>
             /\ thrown' = ""
             /\ DATA_controllerStates' = DATA_controllerStates
             /\ DATA_CONTROLLERID' = DATA_CONTROLLERID]_vars

C8_Witness ==
    /\ Handled({SetAt(Sample, 21, 3)})
    /\ logged = "CRC32 mismatch"
    /\ sent = <<>>
    /\ DATA_controllerStates[3].connected

\* C9: DSU_setControllerState with an index outside 0..3 and
\* DSU_setControllersState with other than 4 entries throw and leave the
\* store as it was; DSU_setControllerState with a valid index replaces that
\* slot alone; the store always holds exactly the slots 0..3.
C9_StoreUpdates ==
    [][/\ op' = "setControllerState" =>
            IF arg'.index \in 0..3
            THEN /\ thrown' = ""
                 /\ DATA_controllerStates'[arg'.index] = arg'.state
                 /\ \A j \in (0..3) \ {arg'.index} :
                       DATA_controllerStates'[j] = DATA_controllerStates[j]
            ELSE /\ thrown' # ""
                 /\ DATA_controllerStates' = DATA_controllerStates
       /\ op' = "setControllersState" =>
            IF ArrayLength(arg'.state) = 4
            THEN thrown' = "" /\ DATA_controllerStates' = arg'.state
            ELSE /\ thrown' # ""
                 /\ DATA_controllerStates' = DATA_controllerStates
       /\ DOMAIN DATA_controllerStates' = 0..3]_vars

C9_Witness ==
    /\ op = "setControllerState"
    /\ arg.index = 4
    /\ thrown = "Invalid controller index"
    /\ DATA_controllerStates[3].connected
    /\ ~DATA_controllerStates[0].connected

\* The frames the dispatcher has no answer for: a controller-data query
\* whose body does not start with 1 or 2, and every frame of another kind
\* than the two queries.
Unanswered(m) ==
    \/ CodeOf(m) = CodeData /\ At(BodyOf(m), 0) \notin {1, 2}
    \/ CodeOf(m) \notin {CodeConnected, CodeData}

\* C10: for a valid frame the dispatcher has no answer for, the handler
\* sends nothing, lets no error escape and leaves the store as it was.
C10_UnansweredFramesAreIgnored ==
    [][(op = "message" /\ op' = "handler" /\ msg \in ValidFrames /\ Unanswered(msg))
          => /\ sent' = <<>>
             /\ thrown' = ""
             /\ logged' \in {"", "Received"}
             /\ DATA_controllerStates' = DATA_controllerStates]_vars

C10_Witness ==
    /\ Handled({ClientFrame(CodeData, <<3, 7, 0, 0, 0, 0, 0, 1>>)})
    /\ sent = <<>>
    /\ logged = ""
    /\ DATA_controllerStates[1].connected

\* C11: DSU_parseMessage (through DSU_calcCRC32) leaves the caller's buffer
\* with the bytes it had before the call, so a valid datagram buffer parses
\* the second time as it did the first time: without error, to the same
\* kind and body.
C11_ParseLeavesBufferIntact ==
    (op = "parseMessage" /\ arg.fn = "parseMessage"
     /\ LengthValid(arg.msg) /\ ChecksumValid(arg.msg))
        => /\ msg = arg.msg
           /\ ret.error = ""
           /\ ret.messageType = MessageTypeOfHex(LittleEndianToString16(CodeOf(arg.msg)))
           /\ ret.message = BodyOf(arg.msg)

============================================================================
